---- MODULE Spec2Model ----
(***************************************************************************)
(* JinaRerankerV3 (backend/open_webui/retrieval/models/jina_reranker_v3.py) *)
(* The adapter's constructor and its predict method, one action per step    *)
(* of the code.  Relevance scores are written in tenths (9 stands for 0.9,  *)
(* 0 for 0.0); Python lists are sequences, so Python index i is position    *)
(* i + 1.                                                                   *)
(***************************************************************************)
EXTENDS Integers, Sequences, FiniteSets

VARIABLES
  adapter,    \* "none" | "ready" | "failed": what the caller of __init__ holds
  model,      \* self.model: "null" or the handle of the loaded model
  ctorExc,    \* the exception raised inside the try block of __init__ ("" for none)
  ctorRaised, \* the exception __init__ raised to its caller ("" for none)
  ctorLog,    \* the log records __init__ wrote
  loads,      \* how many times AutoModel.from_pretrained was called
  pc,         \* per call: position in predict
  sentences,  \* per call: the argument of predict
  query,      \* per call: local `query`
  documents,  \* per call: local `documents`
  calls,      \* per call: the invocations of self.model.rerank it made
  rerankExc,  \* per call: the exception self.model.rerank raised ("" for none)
  results,    \* per call: local `results`, what self.model.rerank returned
  scores,     \* per call: local `scores`
  pos,        \* per call: how many entries of results['results'] the loop consumed
  ret,        \* per call: what predict handed to its caller
  log         \* per call: the log records the call wrote

ctorVars  == <<adapter, model, ctorExc, ctorRaised, ctorLog, loads>>
frameVars == <<pc, sentences, query, documents, calls, rerankExc, results,
               scores, pos, ret, log>>
vars      == <<adapter, model, ctorExc, ctorRaised, ctorLog, loads, pc, sentences,
               query, documents, calls, rerankExc, results, scores, pos, ret, log>>

(***************************************************************************)
(* Bounds and input universes                                              *)
(***************************************************************************)
\* longest request of the sequential specification
MaxN == 2
\* most entries in results['results'] of the sequential specification
MaxRes == 3
\* longest request of the concurrent specification
ConcN == 2

Threads    == {"t1", "t2"}
MainThread == "t1"

ModelPaths == {"jinaai/jina-reranker-v3"}
ScoreVals  == {2, 9}

SeqsUpTo(S, n) == UNION {[1..k -> S] : k \in 0..n}

\* requests of the sequential specification: pairs that differ in both fields
SeqPairs    == {<<"q1", "A">>, <<"q2", "B">>}
Requests    == SeqsUpTo(SeqPairs, MaxN)
\* requests of the concurrent specification: pairs that differ in one field
ConcPairs    == {<<"q1", "A">>, <<"q1", "B">>, <<"q2", "B">>}
ConcRequests == SeqsUpTo(ConcPairs, ConcN)

(***************************************************************************)
(* Python values                                                           *)
(***************************************************************************)
\* the exception classes that occur; all but KeyboardInterrupt derive from
\* Exception (KeyboardInterrupt derives from BaseException only)
Errors     == {"RuntimeError", "OSError", "KeyError", "TypeError"}
Interrupts == {"KeyboardInterrupt"}

\* a result entry: a dict that may lack either key, and whose 'index' may be
\* a value that cannot be compared with an integer
Entry(i, s)     == [keys |-> {"index", "relevance_score"}, index_type |-> "int",
                    index |-> i, relevance_score |-> s]
NoIndexEntry    == [keys |-> {"relevance_score"}, index_type |-> "int",
                    index |-> 0, relevance_score |-> 9]
NoScoreEntry    == [keys |-> {"index"}, index_type |-> "int",
                    index |-> 0, relevance_score |-> 0]
StrIndexEntry   == [keys |-> {"index", "relevance_score"}, index_type |-> "str",
                    index |-> 0, relevance_score |-> 9]
WellFormedEntries == {Entry(i, s) : i \in (-1)..MaxN, s \in ScoreVals}
Entries           == WellFormedEntries \cup {NoIndexEntry, NoScoreEntry, StrIndexEntry}

\* what rerank returns: a dict with or without the key 'results'
ResultsDict(es) == [has_results |-> TRUE, results |-> es]
NoResultsKey    == [has_results |-> FALSE, results |-> <<>>]

\* what one invocation of rerank does: return a dict or raise
Returns(d) == [kind |-> "return", exc |-> "", value |-> d]
Raises(e)  == [kind |-> "raise", exc |-> e, value |-> NoResultsKey]

Outcomes ==
  {Returns(ResultsDict(es)) : es \in SeqsUpTo(Entries, MaxRes)}
    \cup {Returns(NoResultsKey)}
    \cup {Raises(e) : e \in {"RuntimeError"} \cup Interrupts}

ConcOutcomes ==
  {Returns(ResultsDict(es)) : es \in
      { <<>>,
        <<Entry(0, 2)>>,
        <<Entry(1, 9), Entry(0, 2)>>,
        <<Entry(0, 2), Entry(0, 9)>> }}
    \cup {Raises("RuntimeError")}

\* what predict hands to its caller
Pending     == [kind |-> "pending", value |-> <<>>, exc |-> ""]
NoneResult  == [kind |-> "None", value |-> <<>>, exc |-> ""]
ListResult(v) == [kind |-> "list", value |-> v, exc |-> ""]
Propagated(e) == [kind |-> "raise", value |-> <<>>, exc |-> e]

LogRec(level, what, idx) == [level |-> level, what |-> what, idx |-> idx]

(***************************************************************************)
(* Pure helpers of predict                                                 *)
(***************************************************************************)
\* the default score 0.0 of line 86
Zero == 0

\* faulty variant: the vector starts at -0.1 instead of 0.0
ZerosNegativeDefault(n) == [i \in 1..n |-> -1]

\* line 86: [0.0] * num_docs
Zeros(n) == [i \in 1..n |-> Zero]

\* faulty variant: the query is taken from the last pair
QueryOfLastPair(ss) == ss[Len(ss)][1]

\* line 66: query = sentences[0][0]
QueryOf(ss) == ss[1][1]

\* line 69: documents = [doc for _, doc in sentences]
DocumentsOf(ss) == [i \in 1..Len(ss) |-> ss[i][2]]

\* lines 76-80: the arguments of self.model.rerank
RerankCall(q, docs) == [query |-> q, documents |-> docs, return_embeddings |-> FALSE]

\* faulty variant: the lower bound of the range check is missing
InRangeUpperOnly(idx, num_docs) == idx < num_docs

\* line 91: 0 <= idx < num_docs
InRange(idx, num_docs) == 0 <= idx /\ idx < num_docs

\* the position a Python list subscript names: a negative subscript counts
\* from the end of the list
PyIndex(l, idx) == IF idx < 0 THEN Len(l) + idx + 1 ELSE idx + 1

\* faulty variant: scores are stored in the order the model ranks them
StoreInArrivalOrder(l, idx, score) ==
  LET free == {k \in 1..Len(l) : l[k] = Zero}
  IN  IF free = {} THEN l
      ELSE [l EXCEPT ![CHOOSE k \in free : \A j \in free : k <= j] = score]

\* faulty variant: a slot already written is not written again
StoreFirstWins(l, idx, score) ==
  LET k == PyIndex(l, idx)
  IN  IF k \in 1..Len(l) /\ l[k] = Zero THEN [l EXCEPT ![k] = score] ELSE l

\* line 92: scores[idx] = score
StoreScore(l, idx, score) ==
  LET k == PyIndex(l, idx)
  IN  IF k \in 1..Len(l) THEN [l EXCEPT ![k] = score] ELSE l

\* faulty variant: the vector is kept on the adapter and shared by all calls
SharedScoresCell(t) == MainThread

\* line 86: `scores` is a local of the call, so each call has its own
ScoresCell(t) == t

\* faulty variant: only lookup and type errors are caught
CatchesLookupErrorsOnly(exc) == exc \in {"KeyError", "TypeError"}

\* line 99: except Exception
Catches(exc) == exc \in Errors

\* faulty variant: the handler returns the vector as far as it was filled
ExceptReturnsPartial(t) == ListResult(scores[t])

\* line 101: return None
ExceptReturn(t) == NoneResult

\* faulty variant: an empty request yields an empty vector
EmptyReturnsEmptyList == ListResult(<<>>)

\* line 62: return None
EmptyReturn == NoneResult

\* line 38: except Exception
CtorCatches(exc) == exc \in Errors

\* faulty variant: the handler logs and does not re-raise
CtorSwallows == FALSE

\* line 40: raise
CtorReraises == TRUE

(***************************************************************************)
(* Initial state: nothing constructed, no call in progress                 *)
(***************************************************************************)
Init ==
  /\ adapter = "none"
  /\ model = "null"
  /\ ctorExc = ""
  /\ ctorRaised = ""
  /\ ctorLog = <<>>
  /\ loads = 0
  /\ pc = [t \in Threads |-> "idle"]
  /\ sentences = [t \in Threads |-> <<>>]
  /\ query = [t \in Threads |-> ""]
  /\ documents = [t \in Threads |-> <<>>]
  /\ calls = [t \in Threads |-> <<>>]
  /\ rerankExc = [t \in Threads |-> ""]
  /\ results = [t \in Threads |-> NoResultsKey]
  /\ scores = [t \in Threads |-> <<>>]
  /\ pos = [t \in Threads |-> 0]
  /\ ret = [t \in Threads |-> Pending]
  /\ log = [t \in Threads |-> <<>>]

(***************************************************************************)
(* __init__ (lines 12-40).  lo and eo are what from_pretrained and eval do: *)
(* "ok" or the exception raised.                                           *)
(***************************************************************************)
Construct(path, lo, eo) ==
  /\ adapter = "none"
  /\ loads' = loads + 1
  /\ LET exc    == IF lo # "ok" THEN lo ELSE IF eo # "ok" THEN eo ELSE ""
         caught == exc # "" /\ CtorCatches(exc)
         raised == exc # "" /\ (~caught \/ CtorReraises)
     IN  /\ model' = IF lo = "ok" THEN path ELSE "null"
         /\ ctorLog' = <<LogRec("info", "loading", 0)>> \o
                         (IF exc = "" THEN <<LogRec("info", "loaded", 0)>>
                          ELSE IF caught THEN <<LogRec("error", exc, 0)>>
                          ELSE <<>>)
         /\ ctorExc' = exc
         /\ ctorRaised' = IF raised THEN exc ELSE ""
         /\ adapter' = IF raised THEN "failed" ELSE "ready"
  /\ UNCHANGED frameVars

(***************************************************************************)
(* predict (lines 42-101), one action per step of call t                   *)
(***************************************************************************)
\* the caller enters predict with argument req
Predict(t, req) ==
  /\ adapter = "ready"
  /\ pc[t] = "idle"
  /\ sentences' = [sentences EXCEPT ![t] = req]
  /\ pc' = [pc EXCEPT ![t] = "entry"]
  /\ UNCHANGED <<ctorVars, query, documents, calls, rerankExc, results, scores,
                 pos, ret, log>>

\* lines 60-62
CheckEmpty(t) ==
  /\ pc[t] = "entry"
  /\ IF sentences[t] = <<>>
       THEN /\ log' = [log EXCEPT ![t] = Append(@, LogRec("warning", "empty", 0))]
            /\ ret' = [ret EXCEPT ![t] = EmptyReturn]
            /\ pc' = [pc EXCEPT ![t] = "done"]
       ELSE /\ pc' = [pc EXCEPT ![t] = "try"]
            /\ UNCHANGED <<log, ret>>
  /\ UNCHANGED <<ctorVars, sentences, query, documents, calls, rerankExc,
                 results, scores, pos>>

\* lines 66-72
Extract(t) ==
  /\ pc[t] = "try"
  /\ query' = [query EXCEPT ![t] = QueryOf(sentences[t])]
  /\ documents' = [documents EXCEPT ![t] = DocumentsOf(sentences[t])]
  /\ pc' = [pc EXCEPT ![t] = "rerank"]
  /\ UNCHANGED <<ctorVars, sentences, calls, rerankExc, results, scores, pos,
                 ret, log>>

\* lines 99-101 for an exception exc raised inside the try block of call t;
\* an exception the clause does not catch leaves predict
Handler(t, exc) ==
  /\ pc' = [pc EXCEPT ![t] = "done"]
  /\ IF Catches(exc)
       THEN /\ log' = [log EXCEPT ![t] = Append(@, LogRec("exception", exc, 0))]
            /\ ret' = [ret EXCEPT ![t] = ExceptReturn(t)]
       ELSE /\ ret' = [ret EXCEPT ![t] = Propagated(exc)]
            /\ UNCHANGED log

\* lines 76-80; the model does one of `outcomes` with the invocation
Rerank(t, outcomes) ==
  /\ pc[t] = "rerank"
  /\ calls' = [calls EXCEPT ![t] = Append(@, RerankCall(query[t], documents[t]))]
  /\ \E o \in outcomes :
       IF o.kind = "return"
         THEN /\ results' = [results EXCEPT ![t] = o.value]
              /\ pc' = [pc EXCEPT ![t] = "alloc"]
              /\ UNCHANGED <<rerankExc, ret, log>>
         ELSE /\ rerankExc' = [rerankExc EXCEPT ![t] = o.exc]
              /\ Handler(t, o.exc)
              /\ UNCHANGED results
  /\ UNCHANGED <<ctorVars, sentences, query, documents, scores, pos>>

\* lines 85-86
Allocate(t) ==
  /\ pc[t] = "alloc"
  /\ scores' = [scores EXCEPT ![ScoresCell(t)] = Zeros(Len(documents[t]))]
  /\ pc' = [pc EXCEPT ![t] = "for"]
  /\ UNCHANGED <<ctorVars, sentences, query, documents, calls, rerankExc,
                 results, pos, ret, log>>

\* line 88: results['results'] is evaluated once, before the first iteration
ForInit(t) ==
  /\ pc[t] = "for"
  /\ IF results[t].has_results
       THEN /\ pc' = [pc EXCEPT ![t] = "loop"]
            /\ UNCHANGED <<ret, log>>
       ELSE Handler(t, "KeyError")
  /\ UNCHANGED <<ctorVars, sentences, query, documents, calls, rerankExc,
                 results, scores, pos>>

\* lines 88-94: one iteration of the loop
ForStep(t) ==
  /\ pc[t] = "loop"
  /\ pos[t] < Len(results[t].results)
  /\ LET result == results[t].results[pos[t] + 1]
         idx    == result.index
         score  == result.relevance_score
     IN  IF "index" \notin result.keys \/ "relevance_score" \notin result.keys
           THEN /\ Handler(t, "KeyError")
                /\ UNCHANGED <<scores, pos>>
         ELSE IF result.index_type # "int"
           THEN /\ Handler(t, "TypeError")
                /\ UNCHANGED <<scores, pos>>
         ELSE IF InRange(idx, Len(documents[t]))
           THEN /\ scores' = [scores EXCEPT
                                ![ScoresCell(t)] = StoreScore(@, idx, score)]
                /\ pos' = [pos EXCEPT ![t] = @ + 1]
                /\ UNCHANGED <<pc, ret, log>>
         ELSE /\ log' = [log EXCEPT
                           ![t] = Append(@, LogRec("warning", "invalid index", idx))]
              /\ pos' = [pos EXCEPT ![t] = @ + 1]
              /\ UNCHANGED <<pc, ret, scores>>
  /\ UNCHANGED <<ctorVars, sentences, query, documents, calls, rerankExc, results>>

\* lines 96-97, once the loop has consumed every entry
Return(t) ==
  /\ pc[t] = "loop"
  /\ pos[t] = Len(results[t].results)
  /\ ret' = [ret EXCEPT ![t] = ListResult(scores[ScoresCell(t)])]
  /\ pc' = [pc EXCEPT ![t] = "done"]
  /\ UNCHANGED <<ctorVars, sentences, query, documents, calls, rerankExc,
                 results, scores, pos, log>>

\* the caller has the outcome; the frame of the call is gone
Finish(t) ==
  /\ pc[t] = "done"
  /\ pc' = [pc EXCEPT ![t] = "idle"]
  /\ sentences' = [sentences EXCEPT ![t] = <<>>]
  /\ query' = [query EXCEPT ![t] = ""]
  /\ documents' = [documents EXCEPT ![t] = <<>>]
  /\ calls' = [calls EXCEPT ![t] = <<>>]
  /\ rerankExc' = [rerankExc EXCEPT ![t] = ""]
  /\ results' = [results EXCEPT ![t] = NoResultsKey]
  /\ scores' = [scores EXCEPT ![t] = <<>>]
  /\ pos' = [pos EXCEPT ![t] = 0]
  /\ ret' = [ret EXCEPT ![t] = Pending]
  /\ log' = [log EXCEPT ![t] = <<>>]
  /\ UNCHANGED ctorVars

\* what AutoModel.from_pretrained and self.model.eval() may do
LoadOutcomes == {"ok", "OSError"} \cup Interrupts
EvalOutcomes == {"ok", "RuntimeError"} \cup Interrupts

\* one caller, one call at a time
Next ==
  \/ \E path \in ModelPaths, lo \in LoadOutcomes, eo \in EvalOutcomes :
       Construct(path, lo, eo)
  \/ \E req \in Requests : Predict(MainThread, req)
  \/ CheckEmpty(MainThread)
  \/ Extract(MainThread)
  \/ Rerank(MainThread, Outcomes)
  \/ Allocate(MainThread)
  \/ ForInit(MainThread)
  \/ ForStep(MainThread)
  \/ Return(MainThread)
  \/ Finish(MainThread)

Spec == Init /\ [][Next]_vars

\* two callers sharing one adapter, their steps interleaved
NextConc ==
  \/ \E path \in ModelPaths, lo \in LoadOutcomes, eo \in EvalOutcomes :
       Construct(path, lo, eo)
  \/ \E t \in Threads :
       \/ \E req \in ConcRequests : Predict(t, req)
       \/ CheckEmpty(t)
       \/ Extract(t)
       \/ Rerank(t, ConcOutcomes)
       \/ Allocate(t)
       \/ ForInit(t)
       \/ ForStep(t)
       \/ Return(t)
       \/ Finish(t)

SpecConc == Init /\ [][NextConc]_vars

(***************************************************************************)
(* Vocabulary of the properties                                            *)
(***************************************************************************)
Done(t)      == pc[t] = "done"
NumPairs(t)  == Len(sentences[t])
EntriesOf(t) == results[t].results

\* call t invoked the model and the model returned normally
ModelReturned(t) == Done(t) /\ Len(calls[t]) = 1 /\ rerankExc[t] = ""

WellFormed(e) == e.keys = {"index", "relevance_score"} /\ e.index_type = "int"

\* the model returned a 'results' collection of (integer index, score) entries
AllWellFormed(t) ==
  /\ results[t].has_results
  /\ \A k \in 1..Len(EntriesOf(t)) : WellFormed(EntriesOf(t)[k])

Named(es, i) == {k \in 1..Len(es) : es[k].index = i}
LastOf(S)    == CHOOSE k \in S : \A j \in S : j <= k

\* the score the entries es dictate for index i: that of the last entry naming
\* i, the default when none does
LastScoreFor(es, i) ==
  IF Named(es, i) = {} THEN 0 ELSE es[LastOf(Named(es, i))].relevance_score

OutOfRange(e, n) == e.index < 0 \/ e.index >= n

\* the invalid-index warnings of a log, in order
InvalidLogged(l) == SelectSeq(l, LAMBDA r : r.what = "invalid index")

RECURSIVE OutOfRangeIndices(_, _)
OutOfRangeIndices(es, n) ==
  IF es = <<>> THEN <<>>
  ELSE (IF OutOfRange(Head(es), n) THEN <<Head(es).index>> ELSE <<>>)
         \o OutOfRangeIndices(Tail(es), n)

(***************************************************************************)
(* C1: when the model's rerank invocation raises an error (an exception    *)
(* deriving from Exception), predict returns None and nothing propagates   *)
(* to the caller.                                                          *)
(***************************************************************************)
C1_InvocationErrorAbsorbed ==
  \A t \in Threads :
    (Done(t) /\ Len(calls[t]) = 1 /\ rerankExc[t] \in Errors)
      => /\ ret[t] = NoneResult
         /\ ret[t].kind # "raise"

C1_Witness ==
  /\ Done(MainThread)
  /\ NumPairs(MainThread) = 2
  /\ rerankExc[MainThread] = "RuntimeError"
  /\ ret[MainThread] = NoneResult

(***************************************************************************)
(* C2: for a request of N pairs and a normal model return with exactly one *)
(* well-formed entry per index 0..N-1, in any order, predict returns a     *)
(* vector of length N whose slot i is the score of the entry naming i.     *)
(***************************************************************************)
FullCoverage(t) ==
  /\ AllWellFormed(t)
  /\ Len(EntriesOf(t)) = NumPairs(t)
  /\ {EntriesOf(t)[k].index : k \in 1..Len(EntriesOf(t))} = 0..(NumPairs(t) - 1)

C2_FullCoverageAligned ==
  \A t \in Threads :
    (ModelReturned(t) /\ FullCoverage(t))
      => /\ ret[t].kind = "list"
         /\ Len(ret[t].value) = NumPairs(t)
         /\ \A k \in 1..Len(EntriesOf(t)) :
              ret[t].value[EntriesOf(t)[k].index + 1]
                = EntriesOf(t)[k].relevance_score

\* the example of the specification: results (1, 0.9), (0, 0.2) give [0.2, 0.9]
C2_Witness ==
  /\ ModelReturned(MainThread)
  /\ NumPairs(MainThread) = 2
  /\ EntriesOf(MainThread) = <<Entry(1, 9), Entry(0, 2)>>
  /\ ret[MainThread] = ListResult(<<2, 9>>)

(***************************************************************************)
(* C3: an entry whose index is < 0 or >= N is dropped: it changes no slot, *)
(* it does not abort the call, and every in-range entry before or after it *)
(* is written to its own slot.  Stated for every prefix the loop has       *)
(* consumed, so a dropped entry leaves the vector as the entries before it *)
(* made it, and for the returned vector.                                   *)
(***************************************************************************)
C3_OutOfRangeDropped ==
  \A t \in Threads :
    LET n  == NumPairs(t)
        es == EntriesOf(t)
    IN  /\ (pc[t] = "loop" /\ \A k \in 1..pos[t] : WellFormed(es[k]))
             => /\ Len(scores[t]) = n
                /\ \A i \in 0..(n - 1) :
                     scores[t][i + 1] = LastScoreFor(SubSeq(es, 1, pos[t]), i)
        /\ (ModelReturned(t) /\ AllWellFormed(t)
              /\ \E k \in 1..Len(es) : OutOfRange(es[k], n))
             => /\ ret[t].kind = "list"
                /\ Len(ret[t].value) = n
                /\ \A i \in 0..(n - 1) : ret[t].value[i + 1] = LastScoreFor(es, i)
                /\ [k \in 1..Len(InvalidLogged(log[t])) |->
                      InvalidLogged(log[t])[k].idx] = OutOfRangeIndices(es, n)

\* in-range entries before and after a negative index, all applied
C3_Witness ==
  /\ ModelReturned(MainThread)
  /\ NumPairs(MainThread) = 2
  /\ EntriesOf(MainThread) = <<Entry(1, 9), Entry(-1, 9), Entry(0, 2)>>
  /\ ret[MainThread] = ListResult(<<2, 9>>)

(***************************************************************************)
(* C4: when the model returns normally with well-formed entries, predict   *)
(* returns a vector, and every slot that no in-range entry names is        *)
(* exactly 0.0, also when no entry is in range at all.                     *)
(***************************************************************************)
C4_UntouchedSlotsZero ==
  \A t \in Threads :
    (ModelReturned(t) /\ AllWellFormed(t))
      => /\ ret[t].kind = "list"
         /\ Len(ret[t].value) = NumPairs(t)
         /\ \A i \in 0..(NumPairs(t) - 1) :
              Named(EntriesOf(t), i) = {} => ret[t].value[i + 1] = Zero

\* the model names index 1 only: slot 0 keeps the default
C4_Witness ==
  /\ ModelReturned(MainThread)
  /\ NumPairs(MainThread) = 2
  /\ EntriesOf(MainThread) = <<Entry(1, 9)>>
  /\ ret[MainThread] = ListResult(<<0, 9>>)

(***************************************************************************)
(* C5: predict on an empty request returns None, not an empty vector, does *)
(* not raise and does not invoke the model.                                *)
(***************************************************************************)
C5_EmptyRequestNone ==
  \A t \in Threads :
    (Done(t) /\ sentences[t] = <<>>)
      => /\ ret[t] = NoneResult
         /\ ret[t] # ListResult(<<>>)
         /\ calls[t] = <<>>

C5_Witness ==
  /\ Done(MainThread)
  /\ sentences[MainThread] = <<>>
  /\ ret[MainThread].kind = "None"
  /\ log[MainThread] = <<LogRec("warning", "empty", 0)>>

(***************************************************************************)
(* C6: when loading the model or switching it to eval mode fails with an   *)
(* error, __init__ logs it and raises that same error to its caller, after *)
(* one load attempt; without a constructed adapter no predict call exists. *)
(***************************************************************************)
C6_ConstructionPropagates ==
  /\ ctorExc # ""
       => /\ adapter = "failed"
          /\ ctorRaised = ctorExc
          /\ loads = 1
          /\ ctorExc \in Errors
               => ctorLog[Len(ctorLog)] = LogRec("error", ctorExc, 0)
  /\ adapter # "ready"
       => \A t \in Threads : pc[t] = "idle" /\ ret[t] = Pending

\* the model loaded, eval() failed
C6_Witness ==
  /\ ctorExc = "RuntimeError"
  /\ model # "null"
  /\ adapter = "failed"
  /\ ctorRaised = "RuntimeError"

(***************************************************************************)
(* C7: when the model returns normally but its output is malformed (no     *)
(* 'results', an entry without 'index' or 'relevance_score', an index that *)
(* cannot be compared with an integer), predict returns None, whatever was *)
(* already written to the vector.                                          *)
(***************************************************************************)
C7_MalformedOutputNone ==
  \A t \in Threads :
    (ModelReturned(t) /\ ~AllWellFormed(t))
      => /\ ret[t] = NoneResult
         /\ ret[t].kind \notin {"list", "raise"}

\* a valid entry was written before the malformed one was met
C7_Witness ==
  /\ ModelReturned(MainThread)
  /\ NumPairs(MainThread) = 2
  /\ Len(EntriesOf(MainThread)) = 3
  /\ WellFormed(EntriesOf(MainThread)[1])
  /\ ~WellFormed(EntriesOf(MainThread)[2])
  /\ scores[MainThread] = <<0, 9>>
  /\ ret[MainThread] = NoneResult

(***************************************************************************)
(* C8: when several in-range entries name the same index, the slot holds   *)
(* the score of the last of them in iteration order, and every other slot  *)
(* holds the default or the score of an entry that names it.               *)
(***************************************************************************)
C8_LastWriteWins ==
  \A t \in Threads :
    LET n  == NumPairs(t)
        es == EntriesOf(t)
    IN  (ModelReturned(t) /\ AllWellFormed(t))
          => \A i \in 0..(n - 1) :
               Cardinality(Named(es, i)) >= 2
                 => /\ ret[t].kind = "list"
                    /\ ret[t].value[i + 1] = es[LastOf(Named(es, i))].relevance_score
                    /\ \A j \in (0..(n - 1)) \ {i} :
                         ret[t].value[j + 1] \in
                           {Zero} \cup {es[k].relevance_score : k \in Named(es, j)}

\* index 0 named twice with different scores, index 1 not at all
C8_Witness ==
  /\ ModelReturned(MainThread)
  /\ NumPairs(MainThread) = 2
  /\ EntriesOf(MainThread) = <<Entry(0, 9), Entry(0, 2)>>
  /\ ret[MainThread] = ListResult(<<2, 0>>)

(***************************************************************************)
(* C9: a call invokes the model at most once: never for an empty request,  *)
(* once for a non-empty one, with the first pair's query, the documents in *)
(* request order and no embeddings.  Two calls whose requests differ only  *)
(* in the queries of the second and later pairs make the same invocation   *)
(* and, given the same model outcome, return the same.                     *)
(***************************************************************************)
SameButLaterQueries(a, b) ==
  /\ Len(a) = Len(b)
  /\ Len(a) >= 1
  /\ a[1] = b[1]
  /\ \A i \in 1..Len(a) : a[i][2] = b[i][2]

C9_OneInvocationFirstQuery ==
  /\ \A t \in Threads :
       /\ Len(calls[t]) <= 1
       /\ pc[t] \in {"alloc", "for", "loop"} => Len(calls[t]) = 1
       /\ Done(t) => Len(calls[t]) = (IF sentences[t] = <<>> THEN 0 ELSE 1)
       /\ Len(calls[t]) = 1
            => /\ calls[t][1].query = sentences[t][1][1]
               /\ Len(calls[t][1].documents) = Len(sentences[t])
               /\ \A i \in 1..Len(sentences[t]) :
                    calls[t][1].documents[i] = sentences[t][i][2]
               /\ calls[t][1].return_embeddings = FALSE
  /\ \A s, t \in Threads :
       (Done(s) /\ Done(t) /\ SameButLaterQueries(sentences[s], sentences[t]))
         => /\ calls[s] = calls[t]
            /\ (rerankExc[s] = rerankExc[t] /\ results[s] = results[t])
                 => ret[s] = ret[t]

\* two finished calls whose requests differ in the second pair's query
C9_Witness ==
  /\ Done("t1") /\ Done("t2")
  /\ sentences["t1"] = <<(<<"q1", "A">>), (<<"q1", "B">>)>>
  /\ sentences["t2"] = <<(<<"q1", "A">>), (<<"q2", "B">>)>>
  /\ results["t1"] = results["t2"]
  /\ calls["t1"] = <<RerankCall("q1", <<"A", "B">>)>>
  /\ ret["t1"] = ListResult(<<2, 9>>)
  /\ ret["t2"] = ListResult(<<2, 9>>)

(***************************************************************************)
(* C10: calls on one adapter are independent.  No step changes self.model  *)
(* once the adapter exists, a step of one call leaves the vector of every  *)
(* other call alone, and under every interleaving each call returns what   *)
(* its own request and its own model outcome dictate.                      *)
(***************************************************************************)
\* what a call returns when it runs alone
AloneResult(t) ==
  IF sentences[t] = <<>> THEN NoneResult
  ELSE IF rerankExc[t] # ""
    THEN (IF rerankExc[t] \in Errors THEN NoneResult ELSE Propagated(rerankExc[t]))
  ELSE IF ~AllWellFormed(t) THEN NoneResult
  ELSE ListResult([k \in 1..NumPairs(t) |-> LastScoreFor(EntriesOf(t), k - 1)])

ReturnsAsAlone == \A t \in Threads : Done(t) => ret[t] = AloneResult(t)

ModelHandleFixed == adapter = "ready" => (adapter' = "ready" /\ model' = model)

\* a call that takes no step keeps its vector
OwnVectorOnly ==
  \A t \in Threads : (pc'[t] = pc[t] /\ pos'[t] = pos[t]) => scores'[t] = scores[t]

C10_CallsIndependent ==
  /\ []ReturnsAsAlone
  /\ [][ModelHandleFixed /\ OwnVectorOnly]_vars

\* both calls finished at once, each with its own vector
C10_Witness ==
  /\ Done("t1") /\ Done("t2")
  /\ NumPairs("t1") = 2 /\ NumPairs("t2") = 1
  /\ ret["t1"] = ListResult(<<2, 9>>)
  /\ ret["t2"] = ListResult(<<9>>)

====
